---- MODULE Spec2Model ----
(***************************************************************************)
(* Model of orbtk's message adapter                                        *)
(* (orbtk_core/src/widget_base/message_adapter.rs): MessageBox,            *)
(* MessageAdapter, MessageReader and MessageIterator.                      *)
(*                                                                         *)
(* Producer threads call send_message; one consumer thread (the host       *)
(* loop) calls entities, message_reader, remove_message_for_entity, len    *)
(* and is_empty, and works on the reader and the iterator it obtained.     *)
(* The store is a BTreeMap<Entity, HashMap<TypeId, Vec<MessageBox>>>       *)
(* behind one Mutex; maps are functions whose DOMAIN is the key set.       *)
(*                                                                         *)
(* Also modelled: the consumer's scan-and-drain cycle over the adapter     *)
(* (SpecLive) and OrbitalBackend::drain_events of src/backend/orbital.rs,  *)
(* which turns window events into registered mouse events (SpecOrb).       *)
(***************************************************************************)
EXTENDS Integers, Sequences, FiniteSets, TLC

\* ---------------------------------------------------------------- bounds
\* Total number of send_message calls that may be started.
MaxSends == 3

\* Entity identifiers (dces::entity::Entity, totally ordered).
Entities == {1, 2}

\* Type tags (TypeId) of the payload types in use.
Types == {"String", "i32"}

\* Producer threads.
Producers == {"p1", "p2"}

\* The messages that are sent: a value of one concrete type; ty is its
\* static type M.  Two values of type String and one of type i32.
Messages == {[ty |-> "String", val |-> 1], [ty |-> "String", val |-> 2],
             [ty |-> "i32", val |-> 42]}

\* Messages a free-standing box is built from, and the types it is
\* recovered as ("bool" is the type of no message).
BoxMessages == [ty : Types, val : {1, 2, 42}]
BoxTypes == Types \cup {"bool"}

\* ------------------------------------------------------------ map helpers
EmptyMap == [k \in {} |-> k]

MapPut(f, k, v) == [x \in (DOMAIN f) \cup {k} |-> IF x = k THEN v ELSE f[x]]

MapRemove(f, k) == [x \in (DOMAIN f) \ {k} |-> f[x]]

\* BTreeMap::keys().cloned().collect(): the keys in ascending order.
RECURSIVE SortedKeys(_)
SortedKeys(S) ==
    IF S = {} THEN <<>>
    ELSE LET m == CHOOSE x \in S : \A y \in S : x <= y
         IN  <<m>> \o SortedKeys(S \ {m})

SeqToSet(s) == {s[i] : i \in 1..Len(s)}

\* ------------------------------------------------------------ MessageBox
\* TypeId::of::<M>() for the static type of a message value.
TypeIdOf(m) == m.ty

\* Faulty variant of MessageBox::new: message_type is the TypeId of another
\* type than the message's.
MessageBox_new_wrongtype(message, target) ==
    [message |-> message, message_type |-> "bool", target |-> target]

\* MessageBox::new(message, target)
MessageBox_new(message, target) ==
    [message |-> message, message_type |-> TypeIdOf(message), target |-> target]

\* Box<dyn Any>::downcast::<M>(): succeeds iff the boxed value is an M.
AnyDowncast(message, M) ==
    IF message.ty = M THEN [ok |-> TRUE, value |-> message]
    ELSE [ok |-> FALSE, value |-> message]

\* Results of the checked recoveries: Ok(value), Err(string) or a panic of
\* the inner unwrap.
Ok(v) == [kind |-> "Ok", value |-> <<v>>, err |-> ""]
Err(s) == [kind |-> "Err", value |-> <<>>, err |-> s]
Panic == [kind |-> "Panic", value |-> <<>>, err |-> ""]

\* Faulty variant of downcast: the type tag is not compared.
downcast_unchecked(box, M) == Ok(box.message)

\* MessageBox::downcast::<M>(self)
downcast(box, M) ==
    IF box.message_type = M
    THEN LET r == AnyDowncast(box.message, M)
         IN  IF r.ok THEN Ok(r.value) ELSE Panic
    ELSE Err("Wrong message type")

\* MessageBox::downcast_ref::<M>(&self)
downcast_ref(box, M) ==
    IF box.message_type = M
    THEN LET r == AnyDowncast(box.message, M)
         IN  IF r.ok THEN Ok(r.value) ELSE Panic
    ELSE Err("Wrong message type")

\* MessageBox::is_type::<M>(&self)
is_type(box, M) == box.message_type = M

\* ----------------------------------------------------------------- state
VARIABLES
    messages,        \* MessageAdapter.messages: Entity -> (TypeId -> Seq(MessageBox))
    lock,            \* holder of the Mutex: a producer, or "free"
    poisoned,        \* the Mutex is poisoned (a holder panicked)
    receiverAlive,   \* the Receiver<WindowRequest> still exists
    channel,         \* number of WindowRequest::Redraw sent on window_sender
    pc,              \* per producer: position inside send_message
    started,         \* number of send_message calls started
    completed,       \* number of send_message calls that returned
    consumer,        \* "running" or "panicked"
    reader,          \* <<>> or <<MessageReader>> held by the consumer
    iter,            \* <<>> or <<MessageIterator>> held by the consumer
    result,          \* value returned by the last operation (lastOp)
    boxv,            \* <<>> or <<MessageBox>>: a free-standing box
    sent,            \* history: <<message, target>> pushed and not yet drained/discarded
    drained,         \* history: entities drained/discarded with no push since
    drainLog,        \* history: the entries of sent for the reader's entity at its creation
    readTypes,       \* history: type tags read() was called with on the reader
    firstRead,       \* history: the iterator came from the first read() of its type
    yielded,         \* history: items yielded by the current iterator
    boxArgs,         \* history: <<message, target>> the free-standing box was built from
    lastOp,          \* history: the last operation that acted
    scan,            \* consumer cycle: entities of its snapshot still to be drained
    mouse_buttons,   \* OrbitalBackend.mouse_buttons: <<left, middle, right>>
    registered       \* events registered with the EventManager, in order

vars == <<messages, lock, poisoned, receiverAlive, channel, pc, started,
          completed, consumer, reader, iter, result, boxv, sent, drained,
          drainLog, readTypes, firstRead, yielded, boxArgs, lastOp,
          scan, mouse_buttons, registered>>

adapterVars == <<messages, lock, poisoned, receiverAlive, channel, pc,
                 started, completed, sent, drained>>

boxVars == <<boxv, boxArgs>>

\* All of the message adapter, its consumer and the free-standing box.
messageVars == <<adapterVars, consumer, reader, iter, drainLog, readTypes,
                 firstRead, yielded, boxVars>>

\* The consumer's cycle and the window backend.
hostVars == <<scan, mouse_buttons, registered>>

NoResult == [kind |-> "Unit", value |-> <<>>, err |-> ""]
Some(v) == [kind |-> "Some", value |-> <<v>>, err |-> ""]
None == [kind |-> "None", value |-> <<>>, err |-> ""]

\* MessageAdapter::new(window_sender): an empty store, nothing sent.
Init ==
    /\ messages = EmptyMap
    /\ lock = "free"
    /\ poisoned = FALSE
    /\ receiverAlive = TRUE
    /\ channel = 0
    /\ pc = [p \in Producers |-> "idle"]
    /\ started = 0
    /\ completed = 0
    /\ consumer = "running"
    /\ reader = <<>>
    /\ iter = <<>>
    /\ result = NoResult
    /\ boxv = <<>>
    /\ sent = <<>>
    /\ drained = {}
    /\ drainLog = <<>>
    /\ readTypes = {}
    /\ firstRead = FALSE
    /\ yielded = <<>>
    /\ boxArgs = <<>>
    /\ lastOp = <<"init">>
    /\ scan = <<>>
    /\ mouse_buttons = <<FALSE, FALSE, FALSE>>
    /\ registered = <<>>

\* ------------------------------------------------- MessageAdapter: store
\* Faulty variant of PushBox: insert(0, box) instead of push(box).
PushBox_front(store, box, target, tid) ==
    LET inner == IF target \in DOMAIN store THEN store[target] ELSE EmptyMap
        vec   == IF tid \in DOMAIN inner THEN inner[tid] ELSE <<>>
    IN  MapPut(store, target, MapPut(inner, tid, <<box>> \o vec))

\* Faulty variant of PushBox: insert(target, new map) instead of entry():
\* the messages already pending for the target are lost.
PushBox_overwrite(store, box, target, tid) ==
    MapPut(store, target, MapPut(EmptyMap, tid, <<box>>))

\* Faulty variant of PushBox: the two entries are made with or_insert_with
\* and the box is not pushed.
PushBox_nopush(store, box, target, tid) ==
    LET inner == IF target \in DOMAIN store THEN store[target] ELSE EmptyMap
        vec   == IF tid \in DOMAIN inner THEN inner[tid] ELSE <<>>
    IN  MapPut(store, target, MapPut(inner, tid, vec))

\* entry(target).or_insert_with(HashMap::new)
\*     .entry(TypeId::of::<M>()).or_insert_with(Vec::new).push(box)
PushBox(store, box, target, tid) ==
    LET inner == IF target \in DOMAIN store THEN store[target] ELSE EmptyMap
        vec   == IF tid \in DOMAIN inner THEN inner[tid] ELSE <<>>
    IN  MapPut(store, target, MapPut(inner, tid, Append(vec, box)))

\* Faulty variant of RemoveEntity: the entry is emptied, the key is kept.
RemoveEntity_keep(store, entity) ==
    IF entity \in DOMAIN store THEN MapPut(store, entity, EmptyMap) ELSE store

\* Faulty variant of RemoveEntity: clear() instead of remove(&entity).
RemoveEntity_clear(store, entity) == EmptyMap

\* BTreeMap::remove(&entity): the remaining map.
RemoveEntity(store, entity) == MapRemove(store, entity)

\* Faulty variant of TakeEntity: the first entry of the map is taken,
\* whatever the entity asked for.
TakeEntity_first(store, entity) ==
    IF DOMAIN store # {}
    THEN store[CHOOSE k \in DOMAIN store : \A j \in DOMAIN store : k <= j]
    ELSE EmptyMap

\* BTreeMap::remove(&entity): the removed value, or HashMap::new().
TakeEntity(store, entity) ==
    IF entity \in DOMAIN store THEN store[entity] ELSE EmptyMap

\* History kept for the properties: drop the entries of one entity.
Forget(h, entity) == SelectSeq(h, LAMBDA x : x[2] # entity)

\* History kept for the properties: the entries of one entity, in order.
Pending(h, entity) == SelectSeq(h, LAMBDA x : x[2] = entity)

\* Faulty variant of send_push: the guard locked_messages is dropped right
\* after the push, before the request is sent.
send_push_release(p, message, target) ==
    /\ pc[p] = "idle"
    /\ started < MaxSends
    /\ lock = "free"
    /\ ~poisoned
    /\ started' = started + 1
    /\ messages' = PushBox(messages, MessageBox_new(message, target),
                           target, TypeIdOf(message))
    /\ sent' = Append(sent, <<message, target>>)
    /\ drained' = drained \ {target}
    /\ pc' = [pc EXCEPT ![p] = "pushed"]
    /\ result' = NoResult
    /\ lastOp' = <<"send_push">>
    /\ UNCHANGED <<lock, poisoned, receiverAlive, channel, completed>>
    /\ UNCHANGED <<consumer, reader, iter, drainLog, readTypes, firstRead,
                   yielded>>
    /\ UNCHANGED boxVars

\* ------------------------------------------- MessageAdapter::send_message
\* self.messages.lock().expect(..) succeeds, then
\* locked_messages.entry(target)...push(MessageBox::new(message, target)).
\* The guard locked_messages stays alive.
send_push(p, message, target) ==
    /\ pc[p] = "idle"
    /\ started < MaxSends
    /\ lock = "free"
    /\ ~poisoned
    /\ started' = started + 1
    /\ lock' = p
    /\ messages' = PushBox(messages, MessageBox_new(message, target),
                           target, TypeIdOf(message))
    /\ sent' = Append(sent, <<message, target>>)
    /\ drained' = drained \ {target}
    /\ pc' = [pc EXCEPT ![p] = "pushed"]
    /\ result' = NoResult
    /\ lastOp' = <<"send_push">>
    /\ UNCHANGED <<poisoned, receiverAlive, channel, completed>>
    /\ UNCHANGED <<consumer, reader, iter, drainLog, readTypes, firstRead,
                   yielded>>
    /\ UNCHANGED boxVars

\* Faulty variant of send_notify: the request is sent twice.
send_notify_twice(p) ==
    /\ pc[p] = "pushed"
    /\ lock = p
    /\ receiverAlive
    /\ channel' = channel + 2
    /\ pc' = [pc EXCEPT ![p] = "sent"]
    /\ result' = NoResult
    /\ lastOp' = <<"send_notify">>
    /\ UNCHANGED <<messages, lock, poisoned, receiverAlive, started,
                   completed, sent, drained>>
    /\ UNCHANGED <<consumer, reader, iter, drainLog, readTypes, firstRead,
                   yielded>>
    /\ UNCHANGED boxVars

\* self.window_sender.send(WindowRequest::Redraw).expect(..) succeeds; the
\* guard is still alive.
send_notify(p) ==
    /\ pc[p] = "pushed"
    /\ lock = p
    /\ receiverAlive
    /\ channel' = channel + 1
    /\ pc' = [pc EXCEPT ![p] = "sent"]
    /\ result' = NoResult
    /\ lastOp' = <<"send_notify">>
    /\ UNCHANGED <<messages, lock, poisoned, receiverAlive, started,
                   completed, sent, drained>>
    /\ UNCHANGED <<consumer, reader, iter, drainLog, readTypes, firstRead,
                   yielded>>
    /\ UNCHANGED boxVars

\* End of send_message: locked_messages is dropped, the call returns.
send_return(p) ==
    /\ pc[p] = "sent"
    /\ lock = p
    /\ lock' = "free"
    /\ pc' = [pc EXCEPT ![p] = "idle"]
    /\ completed' = completed + 1
    /\ result' = NoResult
    /\ lastOp' = <<"send_return">>
    /\ UNCHANGED <<messages, poisoned, receiverAlive, channel, started,
                   sent, drained>>
    /\ UNCHANGED <<consumer, reader, iter, drainLog, readTypes, firstRead,
                   yielded>>
    /\ UNCHANGED boxVars

\* Faulty variant of send_notify_fail: the failed send is ignored (no
\* expect), the guard is dropped normally and the call returns.
send_notify_fail_ignored(p) ==
    /\ pc[p] = "pushed"
    /\ lock = p
    /\ ~receiverAlive
    /\ pc' = [pc EXCEPT ![p] = "panicked"]
    /\ lock' = "free"
    /\ result' = NoResult
    /\ lastOp' = <<"send_notify_fail">>
    /\ UNCHANGED <<messages, poisoned, receiverAlive, channel, started,
                   completed, sent, drained>>
    /\ UNCHANGED <<consumer, reader, iter, drainLog, readTypes, firstRead,
                   yielded>>
    /\ UNCHANGED boxVars

\* send(..) fails because the receiver is gone: expect panics, and the
\* unwinding drops locked_messages, which poisons and unlocks the Mutex.
send_notify_fail(p) ==
    /\ pc[p] = "pushed"
    /\ lock = p
    /\ ~receiverAlive
    /\ pc' = [pc EXCEPT ![p] = "panicked"]
    /\ lock' = "free"
    /\ poisoned' = TRUE
    /\ result' = Panic
    /\ lastOp' = <<"send_notify_fail">>
    /\ UNCHANGED <<messages, receiverAlive, channel, started, completed,
                   sent, drained>>
    /\ UNCHANGED <<consumer, reader, iter, drainLog, readTypes, firstRead,
                   yielded>>
    /\ UNCHANGED boxVars

\* self.messages.lock().expect(..) on a poisoned Mutex panics the producer.
send_lock_fail(p) ==
    /\ pc[p] = "idle"
    /\ started < MaxSends
    /\ lock = "free"
    /\ poisoned
    /\ started' = started + 1
    /\ pc' = [pc EXCEPT ![p] = "panicked"]
    /\ result' = Panic
    /\ lastOp' = <<"send_lock_fail">>
    /\ UNCHANGED <<messages, lock, poisoned, receiverAlive, channel,
                   completed, sent, drained>>
    /\ UNCHANGED <<consumer, reader, iter, drainLog, readTypes, firstRead,
                   yielded>>
    /\ UNCHANGED boxVars

\* The host loop drops the Receiver<WindowRequest>.
drop_receiver ==
    /\ receiverAlive
    /\ receiverAlive' = FALSE
    /\ result' = NoResult
    /\ lastOp' = <<"drop_receiver">>
    /\ UNCHANGED <<messages, lock, poisoned, channel, pc, started,
                   completed, sent, drained>>
    /\ UNCHANGED <<consumer, reader, iter, drainLog, readTypes, firstRead,
                   yielded>>
    /\ UNCHANGED boxVars

\* ------------------------------------------ MessageAdapter: consumer side
\* A call of the consumer that takes the Mutex for its whole body.
CanLock == consumer = "running" /\ lock = "free"

\* .lock().expect(..) on a poisoned Mutex panics the consumer.
lock_panic(op) ==
    /\ CanLock
    /\ poisoned
    /\ consumer' = "panicked"
    /\ result' = Panic
    /\ lastOp' = <<"lock_panic", op>>
    /\ UNCHANGED <<reader, iter, drainLog, readTypes, firstRead, yielded>>
    /\ UNCHANGED adapterVars
    /\ UNCHANGED boxVars

\* Faulty variant of entities: the snapshot misses the last key.
entities_skip_last ==
    /\ CanLock
    /\ ~poisoned
    /\ result' = Ok(LET k == SortedKeys(DOMAIN messages)
                    IN  SubSeq(k, 1, Len(k) - 1))
    /\ lastOp' = <<"entities">>
    /\ UNCHANGED <<consumer, reader, iter, drainLog, readTypes, firstRead,
                   yielded>>
    /\ UNCHANGED adapterVars
    /\ UNCHANGED boxVars

\* MessageAdapter::entities
entities ==
    /\ CanLock
    /\ ~poisoned
    /\ result' = Ok(SortedKeys(DOMAIN messages))
    /\ lastOp' = <<"entities">>
    /\ UNCHANGED <<consumer, reader, iter, drainLog, readTypes, firstRead,
                   yielded>>
    /\ UNCHANGED adapterVars
    /\ UNCHANGED boxVars

\* Faulty variant of remove_message_for_entity: the entry is looked up
\* (get) and not removed.
remove_message_for_entity_get(target) ==
    /\ CanLock
    /\ ~poisoned
    /\ sent' = Forget(sent, target)
    /\ drained' = drained \cup {target}
    /\ result' = NoResult
    /\ lastOp' = <<"remove_message_for_entity", target, target \in DOMAIN messages>>
    /\ UNCHANGED <<messages, lock, poisoned, receiverAlive, channel, pc,
                   started, completed>>
    /\ UNCHANGED <<consumer, reader, iter, drainLog, readTypes, firstRead,
                   yielded>>
    /\ UNCHANGED boxVars

\* MessageAdapter::remove_message_for_entity
remove_message_for_entity(target) ==
    /\ CanLock
    /\ ~poisoned
    /\ messages' = RemoveEntity(messages, target)
    /\ sent' = Forget(sent, target)
    /\ drained' = drained \cup {target}
    /\ result' = NoResult
    /\ lastOp' = <<"remove_message_for_entity", target, target \in DOMAIN messages>>
    /\ UNCHANGED <<lock, poisoned, receiverAlive, channel, pc, started,
                   completed>>
    /\ UNCHANGED <<consumer, reader, iter, drainLog, readTypes, firstRead,
                   yielded>>
    /\ UNCHANGED boxVars

\* MessageAdapter::len
len ==
    /\ CanLock
    /\ ~poisoned
    /\ result' = Ok(Cardinality(DOMAIN messages))
    /\ lastOp' = <<"len">>
    /\ UNCHANGED <<consumer, reader, iter, drainLog, readTypes, firstRead,
                   yielded>>
    /\ UNCHANGED adapterVars
    /\ UNCHANGED boxVars

\* MessageAdapter::is_empty
is_empty ==
    /\ CanLock
    /\ ~poisoned
    /\ result' = Ok(DOMAIN messages = {})
    /\ lastOp' = <<"is_empty">>
    /\ UNCHANGED <<consumer, reader, iter, drainLog, readTypes, firstRead,
                   yielded>>
    /\ UNCHANGED adapterVars
    /\ UNCHANGED boxVars

\* MessageReader::new(messages, target)
MessageReader_new(msgs, target) == [messages |-> msgs, target |-> target]

\* Faulty variant of message_reader: the reader is built from the entry
\* but the entry stays in the store.
message_reader_peek(entity) ==
    /\ CanLock
    /\ ~poisoned
    /\ reader' = <<MessageReader_new(TakeEntity(messages, entity), entity)>>
    /\ drainLog' = Pending(sent, entity)
    /\ readTypes' = {}
    /\ firstRead' = FALSE
    /\ sent' = Forget(sent, entity)
    /\ drained' = drained \cup {entity}
    /\ result' = NoResult
    /\ iter' = <<>>
    /\ yielded' = <<>>
    /\ lastOp' = <<"message_reader", entity>>
    /\ UNCHANGED <<messages, lock, poisoned, receiverAlive, channel, pc,
                   started, completed>>
    /\ UNCHANGED consumer
    /\ UNCHANGED boxVars

\* Faulty variant of message_reader: the drain also sends a
\* WindowRequest::Redraw on the window_sender.
message_reader_notify(entity) ==
    /\ CanLock
    /\ ~poisoned
    /\ messages' = RemoveEntity(messages, entity)
    /\ reader' = <<MessageReader_new(TakeEntity(messages, entity), entity)>>
    /\ drainLog' = Pending(sent, entity)
    /\ readTypes' = {}
    /\ firstRead' = FALSE
    /\ sent' = Forget(sent, entity)
    /\ drained' = drained \cup {entity}
    /\ channel' = channel + 1
    /\ result' = NoResult
    /\ iter' = <<>>
    /\ yielded' = <<>>
    /\ lastOp' = <<"message_reader", entity>>
    /\ UNCHANGED <<lock, poisoned, receiverAlive, pc, started, completed>>
    /\ UNCHANGED consumer
    /\ UNCHANGED boxVars

\* MessageAdapter::message_reader.  The consumer hands each reader to one
\* handler call, so the iterator read from the previous reader has been
\* dropped when the next reader is made.
message_reader(entity) ==
    /\ CanLock
    /\ ~poisoned
    /\ messages' = RemoveEntity(messages, entity)
    /\ reader' = <<MessageReader_new(TakeEntity(messages, entity), entity)>>
    /\ drainLog' = Pending(sent, entity)
    /\ readTypes' = {}
    /\ firstRead' = FALSE
    /\ sent' = Forget(sent, entity)
    /\ drained' = drained \cup {entity}
    /\ result' = NoResult
    /\ iter' = <<>>
    /\ yielded' = <<>>
    /\ lastOp' = <<"message_reader", entity>>
    /\ UNCHANGED <<lock, poisoned, receiverAlive, channel, pc, started,
                   completed>>
    /\ UNCHANGED consumer
    /\ UNCHANGED boxVars

\* ----------------------------------------------------------- MessageReader
HasReader == consumer = "running" /\ reader # <<>>

\* MessageReader::entity
reader_entity ==
    /\ HasReader
    /\ result' = Ok(reader[1].target)
    /\ lastOp' = <<"reader_entity">>
    /\ UNCHANGED <<consumer, reader, iter, drainLog, readTypes, firstRead,
                   yielded>>
    /\ UNCHANGED adapterVars
    /\ UNCHANGED boxVars

\* Faulty variant of contains_type: true whenever any bucket is left.
contains_type_any(M) ==
    /\ HasReader
    /\ result' = Ok(DOMAIN reader[1].messages # {})
    /\ lastOp' = <<"contains_type", M>>
    /\ UNCHANGED <<consumer, reader, iter, drainLog, readTypes, firstRead,
                   yielded>>
    /\ UNCHANGED adapterVars
    /\ UNCHANGED boxVars

\* MessageReader::contains_type::<M>
contains_type(M) ==
    /\ HasReader
    /\ result' = Ok(M \in DOMAIN reader[1].messages)
    /\ lastOp' = <<"contains_type", M>>
    /\ UNCHANGED <<consumer, reader, iter, drainLog, readTypes, firstRead,
                   yielded>>
    /\ UNCHANGED adapterVars
    /\ UNCHANGED boxVars

\* MessageReader::is_empty
reader_is_empty ==
    /\ HasReader
    /\ result' = Ok(DOMAIN reader[1].messages = {})
    /\ lastOp' = <<"reader_is_empty">>
    /\ UNCHANGED <<consumer, reader, iter, drainLog, readTypes, firstRead,
                   yielded>>
    /\ UNCHANGED adapterVars
    /\ UNCHANGED boxVars

\* MessageIterator::new(messages), with the type parameter M
MessageIterator_new(msgs, M) == [messages |-> msgs, ty |-> M]

\* self.messages.remove(&TypeId::of::<M>()): the removed Vec, or vec![]
TakeType(msgs, M) == IF M \in DOMAIN msgs THEN msgs[M] ELSE <<>>

\* Faulty variant of read: the bucket is handed out and left in the reader.
read_peek(M) ==
    /\ HasReader
    /\ iter' = <<MessageIterator_new(TakeType(reader[1].messages, M), M)>>
    /\ readTypes' = readTypes \cup {M}
    /\ firstRead' = (M \notin readTypes)
    /\ yielded' = <<>>
    /\ result' = NoResult
    /\ lastOp' = <<"read", M>>
    /\ UNCHANGED <<consumer, reader, drainLog>>
    /\ UNCHANGED adapterVars
    /\ UNCHANGED boxVars

\* MessageReader::read::<M>
read(M) ==
    /\ HasReader
    /\ iter' = <<MessageIterator_new(TakeType(reader[1].messages, M), M)>>
    /\ reader' = <<[reader[1] EXCEPT !.messages = MapRemove(@, M)]>>
    /\ readTypes' = readTypes \cup {M}
    /\ firstRead' = (M \notin readTypes)
    /\ yielded' = <<>>
    /\ result' = NoResult
    /\ lastOp' = <<"read", M>>
    /\ UNCHANGED <<consumer, drainLog>>
    /\ UNCHANGED adapterVars
    /\ UNCHANGED boxVars

\* Faulty variant of MessageIterator::next: the first box is cloned out
\* with get(0) and stays in the iterator.
iterator_next_keep ==
    /\ consumer = "running"
    /\ iter # <<>>
    /\ IF iter[1].messages = <<>>
       THEN /\ result' = None
            /\ UNCHANGED <<consumer, iter, yielded>>
       ELSE LET r == downcast(Head(iter[1].messages), iter[1].ty)
            IN  IF r.kind = "Ok"
                THEN /\ result' = Some(r.value[1])
                     /\ yielded' = Append(yielded, r.value[1])
                     /\ UNCHANGED <<consumer, iter>>
                ELSE /\ consumer' = "panicked"
                     /\ result' = Panic
                     /\ UNCHANGED <<iter, yielded>>
    /\ lastOp' = <<"next">>
    /\ UNCHANGED <<reader, drainLog, readTypes, firstRead>>
    /\ UNCHANGED adapterVars
    /\ UNCHANGED boxVars

\* --------------------------------------------------------- MessageIterator
\* MessageIterator::next: None when empty, else
\* Some(self.messages.remove(0).downcast::<M>().unwrap())
iterator_next ==
    /\ consumer = "running"
    /\ iter # <<>>
    /\ IF iter[1].messages = <<>>
       THEN /\ result' = None
            /\ UNCHANGED <<consumer, iter, yielded>>
       ELSE LET r == downcast(Head(iter[1].messages), iter[1].ty)
            IN  IF r.kind = "Ok"
                THEN /\ result' = Some(r.value[1])
                     /\ iter' = <<[iter[1] EXCEPT !.messages = Tail(@)]>>
                     /\ yielded' = Append(yielded, r.value[1])
                     /\ UNCHANGED consumer
                ELSE /\ consumer' = "panicked"
                     /\ result' = Panic
                     /\ iter' = <<[iter[1] EXCEPT !.messages = Tail(@)]>>
                     /\ UNCHANGED yielded
    /\ lastOp' = <<"next">>
    /\ UNCHANGED <<reader, drainLog, readTypes, firstRead>>
    /\ UNCHANGED adapterVars
    /\ UNCHANGED boxVars

\* ------------------------------------------- MessageBox on its own
\* The adapter and the consumer are left alone by the box operations.
BoxFrame ==
    /\ UNCHANGED adapterVars
    /\ UNCHANGED <<consumer, reader, iter, drainLog, readTypes, firstRead,
                   yielded>>

\* let b = MessageBox::new(message, target)
box_new(message, target) ==
    /\ boxv' = <<MessageBox_new(message, target)>>
    /\ boxArgs' = <<message, target>>
    /\ result' = NoResult
    /\ lastOp' = <<"new">>
    /\ BoxFrame

\* b.downcast::<M>(): consumes the box
box_downcast(M) ==
    /\ boxv # <<>>
    /\ result' = downcast(boxv[1], M)
    /\ boxv' = <<>>
    /\ lastOp' = <<"downcast", M>>
    /\ UNCHANGED boxArgs
    /\ BoxFrame

\* b.downcast_ref::<M>(): borrows the box
box_downcast_ref(M) ==
    /\ boxv # <<>>
    /\ result' = downcast_ref(boxv[1], M)
    /\ lastOp' = <<"downcast_ref", M>>
    /\ UNCHANGED <<boxv, boxArgs>>
    /\ BoxFrame

\* b.is_type::<M>()
box_is_type(M) ==
    /\ boxv # <<>>
    /\ result' = Ok(is_type(boxv[1], M))
    /\ lastOp' = <<"is_type", M>>
    /\ UNCHANGED <<boxv, boxArgs>>
    /\ BoxFrame

\* b.message_type()
box_message_type ==
    /\ boxv # <<>>
    /\ result' = Ok(boxv[1].message_type)
    /\ lastOp' = <<"message_type">>
    /\ UNCHANGED <<boxv, boxArgs>>
    /\ BoxFrame

\* b.target()
box_target ==
    /\ boxv # <<>>
    /\ result' = Ok(boxv[1].target)
    /\ lastOp' = <<"target">>
    /\ UNCHANGED <<boxv, boxArgs>>
    /\ BoxFrame

\* ------------------------------------------------------------------- Next
\* Normal operation: the host loop keeps the receiver for the session.
Next ==
    \/ /\ \E p \in Producers, m \in Messages, e \in Entities :
              send_push(p, m, e)
       /\ UNCHANGED hostVars
    \/ (\E p \in Producers : send_notify(p)) /\ UNCHANGED hostVars
    \/ (\E p \in Producers : send_return(p)) /\ UNCHANGED hostVars
    \/ entities /\ UNCHANGED hostVars
    \/ (\E e \in Entities : remove_message_for_entity(e))
           /\ UNCHANGED hostVars
    \/ len /\ UNCHANGED hostVars
    \/ is_empty /\ UNCHANGED hostVars
    \/ (\E e \in Entities : message_reader(e)) /\ UNCHANGED hostVars
    \/ reader_entity /\ UNCHANGED hostVars
    \/ (\E M \in Types : contains_type(M)) /\ UNCHANGED hostVars
    \/ reader_is_empty /\ UNCHANGED hostVars
    \/ (\E M \in Types : read(M)) /\ UNCHANGED hostVars
    \/ iterator_next /\ UNCHANGED hostVars

Spec == Init /\ [][Next]_vars

\* Operation in which the receiver may be dropped at any time.
NextFail ==
    \/ Next
    \/ drop_receiver /\ UNCHANGED hostVars
    \/ (\E p \in Producers : send_notify_fail(p)) /\ UNCHANGED hostVars
    \/ (\E p \in Producers : send_lock_fail(p)) /\ UNCHANGED hostVars
    \/ /\ \E op \in {"entities", "remove_message_for_entity", "len",
                      "is_empty", "message_reader"} : lock_panic(op)
       /\ UNCHANGED hostVars

SpecFail == Init /\ [][NextFail]_vars

\* A free-standing box: built from any message and target, recovered as
\* any type.
NextBox ==
    \/ (\E m \in BoxMessages, e \in Entities : box_new(m, e))
           /\ UNCHANGED hostVars
    \/ (\E M \in BoxTypes : box_downcast(M)) /\ UNCHANGED hostVars
    \/ (\E M \in BoxTypes : box_downcast_ref(M)) /\ UNCHANGED hostVars
    \/ (\E M \in BoxTypes : box_is_type(M)) /\ UNCHANGED hostVars
    \/ box_message_type /\ UNCHANGED hostVars
    \/ box_target /\ UNCHANGED hostVars

SpecBox == Init /\ [][NextBox]_vars

\* --------------------------------------------- the consumer's cycle
\* The consumer uses the adapter as a scan-and-drain cycle: it takes the
\* snapshot entities(), then drains or discards each listed entity, then
\* takes the next snapshot.
cycle_scan ==
    /\ scan = <<>>
    /\ entities
    /\ scan' = result'.value[1]
    /\ UNCHANGED <<mouse_buttons, registered>>

cycle_drain ==
    /\ scan # <<>>
    /\ message_reader(Head(scan))
    /\ scan' = Tail(scan)
    /\ UNCHANGED <<mouse_buttons, registered>>

cycle_discard ==
    /\ scan # <<>>
    /\ remove_message_for_entity(Head(scan))
    /\ scan' = Tail(scan)
    /\ UNCHANGED <<mouse_buttons, registered>>

\* A step of the consumer's cycle.
ConsumerCycle == cycle_scan \/ cycle_drain \/ cycle_discard

\* A producer inside send_message goes on to send and to return.
ProducerStep(p) == (send_notify(p) \/ send_return(p)) /\ UNCHANGED hostVars

\* Producers enqueue at any time while the consumer repeats its cycle.
NextLive ==
    \/ /\ \E p \in Producers, m \in Messages, e \in Entities :
              send_push(p, m, e)
       /\ UNCHANGED hostVars
    \/ (\E p \in Producers : send_notify(p)) /\ UNCHANGED hostVars
    \/ (\E p \in Producers : send_return(p)) /\ UNCHANGED hostVars
    \/ cycle_scan
    \/ cycle_drain
    \/ cycle_discard

\* A producer that holds the Mutex is scheduled until it returns (the send
\* on the unbounded channel does not block); the consumer keeps repeating
\* its cycle and, the lock being fair, gets the Mutex if it is free again
\* and again.
SpecLive ==
    /\ Init
    /\ [][NextLive]_vars
    /\ \A p \in Producers : WF_vars(ProducerStep(p))
    /\ SF_vars(ConsumerCycle)

\* ------------------------------------------------- OrbitalBackend
\* Most events one drain_events call reads, and most events the
\* EventManager holds.
MaxBatch == 2

MaxEvents == 3

\* orbclient::EventOption, as far as drain_events looks at it: a Mouse
\* event with its position, a Button event with its three flags, Quit, and
\* any other event.
OrbEvent(kind, left, middle, right, pos) ==
    [kind |-> kind, left |-> left, middle |-> middle, right |-> right,
     pos |-> pos]

OrbEvents ==
    {OrbEvent("Mouse", FALSE, FALSE, FALSE, <<3, 4>>)}
    \cup {OrbEvent("Button", l, m, r, <<>>) : l, m, r \in BOOLEAN}
    \cup {OrbEvent("Quit", FALSE, FALSE, FALSE, <<>>)}
    \cup {OrbEvent("Key", FALSE, FALSE, FALSE, <<>>)}

\* The batches self.inner.events() can return.
Batches == UNION {[1..n -> OrbEvents] : n \in 0..MaxBatch}

\* The events registered with the EventManager.
MouseMove(pos) == [ev |-> "Move", button |-> "", pos |-> pos]
MouseUp(button) == [ev |-> "Up", button |-> button, pos |-> <<>>]
MouseDown(button) == [ev |-> "Down", button |-> button, pos |-> <<>>]
SystemQuit == [ev |-> "Quit", button |-> "", pos |-> <<>>]

\* Faulty variant of match_event: mouse_buttons is overwritten with the
\* event's flags before the released button is looked up.
match_event_store_first(mb, event) ==
    IF event.kind = "Mouse"
    THEN [registered |-> <<MouseMove(event.pos)>>, mouse_buttons |-> mb]
    ELSE IF event.kind = "Button"
    THEN LET now == <<event.left, event.middle, event.right>>
         IN  IF ~event.left /\ ~event.middle /\ ~event.right
             THEN [registered |->
                       <<MouseUp(IF now[1] THEN "Left"
                                 ELSE IF now[2] THEN "Middle"
                                 ELSE "Right")>>,
                   mouse_buttons |-> now]
             ELSE [registered |->
                       <<MouseDown(IF event.left THEN "Left"
                                   ELSE IF event.middle THEN "Middle"
                                   ELSE "Right")>>,
                   mouse_buttons |-> now]
    ELSE IF event.kind = "Quit"
    THEN [registered |-> <<SystemQuit>>, mouse_buttons |-> mb]
    ELSE [registered |-> <<>>, mouse_buttons |-> mb]

\* One iteration of the loop of drain_events, match event.to_option(): the
\* events it registers and the mouse_buttons it leaves, from the
\* mouse_buttons mb it finds.
match_event(mb, event) ==
    IF event.kind = "Mouse"
    THEN [registered |-> <<MouseMove(event.pos)>>, mouse_buttons |-> mb]
    ELSE IF event.kind = "Button"
    THEN IF ~event.left /\ ~event.middle /\ ~event.right
         THEN [registered |->
                   <<MouseUp(IF mb[1] THEN "Left"
                             ELSE IF mb[2] THEN "Middle"
                             ELSE "Right")>>,
               mouse_buttons |-> <<event.left, event.middle, event.right>>]
         ELSE [registered |->
                   <<MouseDown(IF event.left THEN "Left"
                               ELSE IF event.middle THEN "Middle"
                               ELSE "Right")>>,
               mouse_buttons |-> <<event.left, event.middle, event.right>>]
    ELSE IF event.kind = "Quit"
    THEN [registered |-> <<SystemQuit>>, mouse_buttons |-> mb]
    ELSE [registered |-> <<>>, mouse_buttons |-> mb]

\* for event in self.inner.events() { match .. }: the iterations in order,
\* each with its event, the mouse_buttons before and after it and the
\* events it registered.
RECURSIVE Iterations(_, _)
Iterations(mb, events) ==
    IF events = <<>> THEN <<>>
    ELSE LET h == match_event(mb, Head(events))
         IN  <<[event |-> Head(events), before |-> mb,
                registered |-> h.registered, after |-> h.mouse_buttons]>>
             \o Iterations(h.mouse_buttons, Tail(events))

\* The events registered by a run of iterations, in order.
RECURSIVE RegisteredBy(_)
RegisteredBy(its) ==
    IF its = <<>> THEN <<>>
    ELSE Head(its).registered \o RegisteredBy(Tail(its))

\* OrbitalBackend::drain_events, on the batch of events the window returns
\* after sync().
drain_events(events) ==
    LET its == Iterations(mouse_buttons, events)
    IN  /\ Len(registered) + Len(RegisteredBy(its)) <= MaxEvents
        /\ registered' = registered \o RegisteredBy(its)
        /\ mouse_buttons' = IF its = <<>> THEN mouse_buttons
                            ELSE its[Len(its)].after
        /\ result' = NoResult
        /\ lastOp' = <<"drain_events", its>>
        /\ UNCHANGED scan
        /\ UNCHANGED messageVars

NextOrb == \E events \in Batches : drain_events(events)

SpecOrb == Init /\ [][NextOrb]_vars

\* ------------------------------------------------------------ properties
\* The messages carried by a Vec<MessageBox>, in order.
Payloads(v) == [i \in 1..Len(v) |-> v[i].message]

\* The messages of type t in a history of <<message, target>>, in order.
ByType(h, t) ==
    LET f == SelectSeq(h, LAMBDA x : x[1].ty = t)
    IN  [i \in 1..Len(f) |-> f[i][1]]

\* The Vec filed under (e, t) in the store; empty when there is none.
StoreBucket(e, t) ==
    IF e \in DOMAIN messages /\ t \in DOMAIN messages[e]
    THEN messages[e][t] ELSE <<>>

\* The reader's entity had a message of type t when it was drained.
Held(t) == ByType(drainLog, t) # <<>>

\* All boxes the reader still holds.
ReaderBoxes ==
    UNION {SeqToSet(reader[1].messages[t]) : t \in DOMAIN reader[1].messages}

\* Number of boxes the reader still holds.
RECURSIVE SumLen(_, _)
SumLen(m, S) ==
    IF S = {} THEN 0
    ELSE LET t == CHOOSE x \in S : TRUE
         IN  Len(m[t]) + SumLen(m, S \ {t})

ReaderCount == SumLen(reader[1].messages, DOMAIN reader[1].messages)

NoSendInProgress == \A p \in Producers : pc[p] = "idle"

\* C1: the payloads of one type sent to one entity since its last
\* drain/discard are yielded, by message_reader, the first read of that type
\* and iteration until None, in exactly the order they were sent, none
\* missing and none duplicated.
C1_Fifo ==
    (iter # <<>> /\ firstRead /\ lastOp = <<"next">> /\ result = None)
        => yielded = ByType(drainLog, iter[1].ty)

C1_Witness ==
    /\ iter # <<>> /\ firstRead /\ lastOp = <<"next">> /\ result = None
    /\ Len(drainLog) = 3
    /\ Len(yielded) = 2
    /\ yielded[1] # yielded[2]
    /\ drainLog[2][1].ty # iter[1].ty

\* C2: the reader of entity A, and the iterator read from it, hold only
\* boxes that were sent to A: every box has target A and carries a message
\* sent to A, and there are no more boxes than messages sent to A.
C2_Isolation ==
    reader # <<>> =>
        LET A == reader[1].target
            fromA == {x[1] : x \in SeqToSet(drainLog)}
        IN  /\ \A b \in ReaderBoxes : b.target = A /\ b.message \in fromA
            /\ iter # <<>> =>
                  \A b \in SeqToSet(iter[1].messages) :
                      b.target = A /\ b.message \in fromA
            /\ ReaderCount
                 + (IF iter # <<>> THEN Len(iter[1].messages) ELSE 0)
                 + Len(yielded) <= Len(drainLog)

C2_Witness ==
    /\ lastOp = <<"message_reader", 1>>
    /\ ReaderCount = 2
    /\ 2 \in DOMAIN messages

\* C3: entities() lists no entity that was drained or discarded with no
\* send to it since, and lists every entity that was sent to since its
\* last drain/discard.
C3_Emptying ==
    lastOp = <<"entities">> =>
        \A e \in Entities :
            /\ e \in drained => e \notin SeqToSet(result.value[1])
            /\ Pending(sent, e) # <<>> => e \in SeqToSet(result.value[1])

C3_Witness ==
    /\ lastOp = <<"entities">>
    /\ result = Ok(<<1>>)
    /\ reader # <<>> /\ reader[1].target = 1
    /\ 2 \in drained

\* C4: message_reader(e) moves exactly the entry of e out of the store into
\* the reader; a later send leaves the reader and the iterator as they are
\* and files its box in the store.
C4_Step ==
    /\ \A e \in Entities :
         lastOp' = <<"message_reader", e>> =>
            /\ reader'[1].messages =
                 (IF e \in DOMAIN messages THEN messages[e] ELSE EmptyMap)
            /\ e \notin DOMAIN messages'
    /\ lastOp' = <<"send_push">> =>
            /\ reader' = reader
            /\ iter' = iter
            /\ LET x == sent'[Len(sent')]
                   v == messages'[x[2]][x[1].ty]
               IN  /\ v[Len(v)].message = x[1]
                   /\ Len(v) = Len(StoreBucket(x[2], x[1].ty)) + 1

C4_Snapshot == [][C4_Step]_vars

C4_Witness ==
    /\ lastOp = <<"send_push">>
    /\ reader # <<>>
    /\ ReaderCount >= 1
    /\ reader[1].target \in DOMAIN messages

\* C5: when every send_message has returned and nothing was drained or
\* discarded yet, entities() returns exactly the targeted entities, every
\* bucket of the store holds the messages sent to it in order, and a drain
\* hands over exactly the messages sent to the entity.
C5_NoLoss ==
    /\ (NoSendInProgress /\ Len(sent) = completed) =>
          /\ \A e \in Entities, t \in Types :
                Payloads(StoreBucket(e, t)) = ByType(Pending(sent, e), t)
          /\ lastOp = <<"entities">> =>
                /\ SeqToSet(result.value[1]) = {x[2] : x \in SeqToSet(sent)}
                /\ Len(result.value[1]) = Cardinality({x[2] : x \in SeqToSet(sent)})
    /\ (NoSendInProgress /\ lastOp[1] = "message_reader"
          /\ Len(sent) + Len(drainLog) = completed) =>
          /\ ReaderCount = Len(drainLog)
          /\ \A t \in Types :
                Payloads(TakeType(reader[1].messages, t)) = ByType(drainLog, t)

C5_Witness ==
    /\ NoSendInProgress
    /\ completed >= 2
    /\ Len(sent) = completed
    /\ lastOp = <<"entities">>
    /\ result = Ok(<<1, 2>>)

\* C6: the first read::<T>() on a reader returns an iterator over all
\* messages of type T the reader was created with; every later read::<T>()
\* on the same reader returns an empty iterator.
C6_SingleConsumption ==
    lastOp[1] = "read" =>
        /\ iter[1].ty = lastOp[2]
        /\ Payloads(iter[1].messages) =
             (IF firstRead THEN ByType(drainLog, lastOp[2]) ELSE <<>>)

C6_Witness ==
    /\ lastOp[1] = "read"
    /\ ~firstRead
    /\ Len(ByType(drainLog, lastOp[2])) >= 2

\* C7: the reader holds exactly the buckets of the types it was created
\* with and that were not read yet, each intact and in order;
\* contains_type::<U>() is true exactly for those types, and is_empty() is
\* true exactly when none remains.
C7_ReaderBuckets ==
    reader # <<>> =>
        /\ DOMAIN reader[1].messages =
             {t \in Types : Held(t) /\ t \notin readTypes}
        /\ \A t \in DOMAIN reader[1].messages :
             Payloads(reader[1].messages[t]) = ByType(drainLog, t)
        /\ lastOp[1] = "contains_type" =>
             result = Ok(Held(lastOp[2]) /\ lastOp[2] \notin readTypes)
        /\ lastOp = <<"reader_is_empty">> =>
             result = Ok(\A t \in Types : Held(t) => t \in readTypes)

C7_Witness ==
    /\ lastOp = <<"contains_type", "i32">>
    /\ result = Ok(TRUE)
    /\ readTypes = {"String"}
    /\ Len(ByType(drainLog, "String")) = 2

\* C8: a box built from a message of type T is recovered by downcast::<T>
\* and downcast_ref::<T> as Ok of that message; recovery as any other type
\* is an Err, not a panic and not a value.
C8_Recovery ==
    lastOp[1] \in {"downcast", "downcast_ref"} =>
        IF lastOp[2] = boxArgs[1].ty
        THEN result = Ok(boxArgs[1])
        ELSE result.kind = "Err" /\ result.value = <<>>

C8_Witness ==
    /\ lastOp = <<"downcast", "i32">>
    /\ boxArgs[1].ty = "String"
    /\ result.kind = "Err"

\* C9: remove_message_for_entity(e) removes the entry of e and produces no
\* reader; a message_reader(e) right after it returns an empty reader with
\* entity e; both leave the store unchanged when e has no entry.
C9_Step ==
    \A e \in Entities :
        /\ lastOp'[1] = "remove_message_for_entity" /\ lastOp'[2] = e =>
              /\ e \notin DOMAIN messages'
              /\ \A f \in DOMAIN messages \ {e} :
                    f \in DOMAIN messages' /\ messages'[f] = messages[f]
              /\ reader' = reader
              /\ iter' = iter
              /\ e \notin DOMAIN messages => messages' = messages
        /\ (lastOp[1] = "remove_message_for_entity" /\ lastOp[2] = e
              /\ lastOp' = <<"message_reader", e>>) =>
              /\ reader'[1].messages = EmptyMap
              /\ reader'[1].target = e
        /\ (lastOp' = <<"message_reader", e>> /\ e \notin DOMAIN messages) =>
              /\ messages' = messages
              /\ reader'[1].target = e

C9_Discard == [][C9_Step]_vars

C9_Witness ==
    /\ lastOp = <<"remove_message_for_entity", 1, TRUE>>
    /\ reader = <<>>
    /\ 1 \notin DOMAIN messages
    /\ 2 \in DOMAIN messages

\* C10 as stated: at any time the number of notifications sent equals the
\* number of send_message calls that have returned.
C10_Original == channel = completed

\* C10: every send_message sends one notification, after its push and
\* before it returns: the number of notifications sent equals the number
\* of calls that returned plus the calls that have sent and not returned
\* yet, and never exceeds the number of pushes; when a call has just sent,
\* its message is in the store.
C10_Notify ==
    /\ channel = completed + Cardinality({p \in Producers : pc[p] = "sent"})
    /\ channel <= started
    /\ NoSendInProgress => channel = completed
    /\ lastOp = <<"send_notify">> =>
          LET x == sent[Len(sent)]
              v == StoreBucket(x[2], x[1].ty)
          IN  v # <<>> /\ v[Len(v)].message = x[1]

C10_Witness ==
    /\ lastOp = <<"send_notify">>
    /\ channel = 2
    /\ completed = 1

\* C11 (as stated): every operation that mutates the store or enqueues
\* (enqueue, drain, discard) emits a notification: a step of
\* message_reader or remove_message_for_entity puts one more
\* WindowRequest on the channel.
C11_Original ==
    [][lastOp'[1] \in {"message_reader", "remove_message_for_entity"}
          => channel' = channel + 1]_vars

\* C11 (amended): only the enqueue notifies.  A step of message_reader or
\* remove_message_for_entity leaves the channel as it was, also when it
\* removes pending messages from the store; the channel grows only in the
\* send step of send_message, by exactly one request.
C11_OnlyEnqueueNotifies ==
    [][/\ lastOp'[1] \in {"message_reader", "remove_message_for_entity"}
           => channel' = channel
       /\ channel' # channel
           => lastOp'[1] = "send_notify" /\ channel' = channel + 1]_vars

\* A drain has just removed pending messages and the channel holds only
\* the notification of the one completed enqueue.
C11_Witness ==
    /\ lastOp = <<"message_reader", 1>>
    /\ ReaderCount >= 1
    /\ channel = 1
    /\ completed = 1

\* C12 (as stated): send_message releases the store lock before it sends
\* the request: no producer holds the lock while its send is still to be
\* done (it has pushed and not yet sent).
C12_Original == \A p \in Producers : pc[p] = "pushed" => lock # p

\* C12 (amended): send_message holds the store lock from the push until it
\* returns, so across the whole send: a producer holds the lock exactly
\* while it is between its push and its return, at most one producer is
\* there, and while one is there no other send_message and no call of the
\* consumer can enter the store.
C12_LockHeldAcrossSend ==
    /\ \A p \in Producers : pc[p] \in {"pushed", "sent"} <=> lock = p
    /\ \A p, q \in Producers :
           (pc[p] # "idle" /\ pc[q] # "idle") => p = q
    /\ \A p \in Producers :
           pc[p] \in {"pushed", "sent"}
               => /\ ~CanLock
                  /\ \A q \in Producers, m \in Messages, e \in Entities :
                         ~ENABLED send_push(q, m, e)

\* Producer p1 has pushed and is about to send while holding the lock;
\* producer p2 is idle and has sends left that it cannot start.
C12_Witness ==
    /\ pc["p1"] = "pushed"
    /\ lock = "p1"
    /\ pc["p2"] = "idle"
    /\ started < MaxSends
    /\ channel = completed

\* The number of boxes pending in the store, over all entities and types.
RECURSIVE StoreCountOver(_, _)
StoreCountOver(store, S) ==
    IF S = {} THEN 0
    ELSE LET e == CHOOSE x \in S : TRUE
         IN  SumLen(store[e], DOMAIN store[e]) + StoreCountOver(store, S \ {e})

StoreCount == StoreCountOver(messages, DOMAIN messages)

\* C13: the result of len() is the number of messages in the queue, the
\* total count of boxes pending in the store over all entities and types.
C13_LenCountsMessages ==
    lastOp = <<"len">> => result = Ok(StoreCount)

\* C14: is_empty() returns true exactly when no message is pending in the
\* store; equivalently every entity key of the store, and so every entity
\* listed by entities(), has at least one type bucket and every bucket
\* holds at least one message.
C14_IsEmpty ==
    /\ \A e \in DOMAIN messages :
           /\ DOMAIN messages[e] # {}
           /\ \A t \in DOMAIN messages[e] : messages[e][t] # <<>>
    /\ lastOp = <<"is_empty">> => result = Ok(StoreCount = 0)
    /\ lastOp = <<"entities">> =>
           \A i \in 1..Len(result.value[1]) :
               \E t \in Types : StoreBucket(result.value[1][i], t) # <<>>

\* is_empty() has answered true on a store emptied by a drain and a
\* discard after enqueues for both entities.
C14_Witness ==
    /\ lastOp = <<"is_empty">>
    /\ result = Ok(TRUE)
    /\ started = MaxSends
    /\ drained = Entities
    /\ reader # <<>>

\* The boxes of a Vec<MessageBox>, as a set.
BoxesOf(v) == {v[i] : i \in 1..Len(v)}

\* C15: every box filed under entity e and type tag t, in the store, in a
\* reader made by message_reader or in an iterator made by read, has target
\* e and type tag t (and holds a value of that type); so next() on such an
\* iterator never takes the wrong-type path: it never panics and returns
\* None or Some.
C15_FiledUnderOwnKey ==
    /\ \A e \in DOMAIN messages : \A t \in DOMAIN messages[e] :
           \A b \in BoxesOf(messages[e][t]) :
               b.target = e /\ b.message_type = t /\ TypeIdOf(b.message) = t
    /\ reader # <<>> =>
           \A t \in DOMAIN reader[1].messages :
               \A b \in BoxesOf(reader[1].messages[t]) :
                   /\ b.target = reader[1].target
                   /\ b.message_type = t
                   /\ TypeIdOf(b.message) = t
    /\ iter # <<>> =>
           /\ reader # <<>>
           /\ \A b \in BoxesOf(iter[1].messages) :
                  /\ b.target = reader[1].target
                  /\ b.message_type = iter[1].ty
                  /\ TypeIdOf(b.message) = iter[1].ty
    /\ consumer = "running"
    /\ lastOp = <<"next">> => result.kind \notin {"Panic", "Err"}

\* next() has just yielded an i32 from an iterator read from a drained
\* reader that still holds a String bucket, while the other entity still
\* has a message in the store.
C15_Witness ==
    /\ lastOp = <<"next">>
    /\ iter # <<>> /\ iter[1].ty = "i32"
    /\ Len(yielded) = 1
    /\ reader # <<>> /\ "String" \in DOMAIN reader[1].messages
    /\ StoreCount = 1

\* Number of boxes held by the consumer's reader and by its iterator.
HeldByReader == IF reader = <<>> THEN 0 ELSE ReaderCount

HeldByIterator == IF iter = <<>> THEN 0 ELSE Len(iter[1].messages)

\* The boxes in the store, in the reader, in the iterator and those
\* yielded are never more than the payloads enqueued.
OneOwner ==
    StoreCount + HeldByReader + HeldByIterator + Len(yielded) <= started

\* C16: each enqueued payload has one owner along store -> reader ->
\* iterator -> caller.  No payload is in two stages at once (OneOwner
\* after every step); a payload enters the store only by an enqueue;
\* message_reader moves exactly the entity's entry from the store into the
\* new reader; read moves exactly one bucket from the reader into the new
\* iterator; next moves exactly the first box from the iterator to the
\* caller, so it is yielded once; nothing else changes what a stage holds.
C16_Step ==
    [][/\ OneOwner'
       /\ StoreCount' > StoreCount
           => lastOp'[1] = "send_push" /\ StoreCount' = StoreCount + 1
       /\ lastOp'[1] = "message_reader"
           => /\ reader'[1].messages = TakeEntity(messages, lastOp'[2])
              /\ lastOp'[2] \notin DOMAIN messages'
              /\ StoreCount' + HeldByReader' = StoreCount
              /\ HeldByIterator' = 0 /\ yielded' = <<>>
       /\ lastOp'[1] = "read"
           => /\ iter'[1].messages = TakeType(reader[1].messages, lastOp'[2])
              /\ lastOp'[2] \notin DOMAIN reader'[1].messages
              /\ HeldByReader' + HeldByIterator' = HeldByReader
              /\ yielded' = <<>>
              /\ StoreCount' = StoreCount
       /\ (lastOp'[1] = "next" /\ iter[1].messages # <<>>)
           => /\ result' = Some(Head(iter[1].messages).message)
              /\ iter'[1].messages = Tail(iter[1].messages)
              /\ yielded' = Append(yielded, Head(iter[1].messages).message)
              /\ StoreCount' = StoreCount /\ reader' = reader
       /\ lastOp'[1] \notin {"message_reader", "read"}
           => HeldByReader' = HeldByReader
       /\ lastOp'[1] \notin {"message_reader", "read", "next"}
           => HeldByIterator' = HeldByIterator /\ yielded' = yielded]_vars

\* Three payloads were enqueued; one is in the store, one in the reader
\* and one has just been yielded by the iterator, which is now empty.
C16_Witness ==
    /\ lastOp = <<"next">>
    /\ started = MaxSends
    /\ StoreCount = 1
    /\ HeldByReader = 1
    /\ HeldByIterator = 0
    /\ Len(yielded) = 1

\* The Vec filed in a store under (e, t), empty when there is none.
BucketOf(store, e, t) ==
    IF e \in DOMAIN store /\ t \in DOMAIN store[e] THEN store[e][t] ELSE <<>>

\* C18: send_message(m, e) changes the store only in the bucket
\* (e, type of m), by appending exactly one box at its end, and leaves every
\* other bucket as it was; message_reader(e) and
\* remove_message_for_entity(e) remove only e's entry and leave every other
\* entity's entry as it was; entities(), len(), is_empty() and every other
\* operation leave the store unchanged.
C18_Frame ==
    [][/\ lastOp'[1] = "send_push" =>
              LET m == sent'[Len(sent')][1]
                  e == sent'[Len(sent')][2]
              IN  /\ BucketOf(messages', e, TypeIdOf(m))
                        = Append(BucketOf(messages, e, TypeIdOf(m)),
                                 MessageBox_new(m, e))
                  /\ \A e2 \in Entities, t2 \in Types :
                         <<e2, t2>> # <<e, TypeIdOf(m)>>
                             => BucketOf(messages', e2, t2)
                                    = BucketOf(messages, e2, t2)
       /\ lastOp'[1] \in {"message_reader", "remove_message_for_entity"} =>
              /\ DOMAIN messages' = DOMAIN messages \ {lastOp'[2]}
              /\ \A e2 \in DOMAIN messages' : messages'[e2] = messages[e2]
       /\ lastOp'[1] \notin {"send_push", "message_reader",
                             "remove_message_for_entity"} =>
              messages' = messages]_vars

\* A drain of entity 2 has taken its one message and left the two
\* messages of entity 1 in the store.
C18_Witness ==
    /\ lastOp = <<"message_reader", 2>>
    /\ DOMAIN messages = {1}
    /\ StoreCount = 2
    /\ HeldByReader = 1

\* The operations of MessageAdapter that take the Mutex.
LockingOps ==
    {"send_push", "entities", "remove_message_for_entity", "len", "is_empty",
     "message_reader"}

\* C19: when the receiver is gone, send_message does not return normally
\* but panics; the panic comes after the box was appended (the store keeps
\* it) and while the Mutex is held, so the Mutex is left poisoned; from
\* then on the Mutex stays poisoned, the store, the channel and the count
\* of completed sends never change again, and every later send_message,
\* entities, message_reader, remove_message_for_entity, len or is_empty on
\* any handle panics instead of acting.
C19_Poison ==
    [][/\ lastOp'[1] = "send_notify" => receiverAlive
       /\ lastOp'[1] = "send_notify_fail" =>
              /\ ~receiverAlive
              /\ lock # "free" /\ pc[lock] = "pushed"
              /\ pc'[lock] = "panicked"
              /\ result' = Panic
              /\ poisoned' /\ lock' = "free"
              /\ messages' = messages
              /\ sent # <<>>
              /\ MessageBox_new(sent[Len(sent)][1], sent[Len(sent)][2])
                     \in BoxesOf(BucketOf(messages', sent[Len(sent)][2],
                                          TypeIdOf(sent[Len(sent)][1])))
              /\ channel' = channel /\ completed' = completed
       /\ (poisoned' /\ ~poisoned) => lastOp'[1] = "send_notify_fail"
       /\ poisoned =>
              /\ poisoned'
              /\ lastOp'[1] \notin LockingOps
              /\ messages' = messages
              /\ channel' = channel
              /\ completed' = completed
              /\ lastOp'[1] \in {"send_lock_fail", "lock_panic"}
                     => result' = Panic
              /\ CanLock =>
                     /\ \A op \in LockingOps \ {"send_push"} :
                            ENABLED lock_panic(op)
                     /\ \A p \in Producers :
                            (pc[p] = "idle" /\ started < MaxSends)
                                => ENABLED send_lock_fail(p)]_vars

\* The receiver was dropped, one send_message panicked after its push and
\* poisoned the Mutex; the other producer's send_message and the
\* consumer's len() have panicked in turn, and the box is still in the
\* store.
C19_Witness ==
    /\ poisoned
    /\ ~receiverAlive
    /\ \A p \in Producers : pc[p] = "panicked"
    /\ lastOp = <<"lock_panic", "len">>
    /\ consumer = "panicked"
    /\ StoreCount >= 1

\* C17: while the consumer keeps repeating its cycle and gets the lock
\* fairly, every entity with a message in the store is eventually drained
\* or discarded, so every enqueued message eventually leaves the store;
\* this includes messages that arrive after the snapshot of the current
\* cycle.
C17_EventuallyDrained ==
    \A e \in Entities : (e \in DOMAIN messages) ~> (e \notin DOMAIN messages)

\* In the middle of a cycle whose snapshot lists only entity 1, a completed
\* enqueue has put a message for entity 2 into the store.
C17_Witness ==
    /\ scan = <<1>>
    /\ DOMAIN messages = {1, 2}
    /\ NoSendInProgress
    /\ completed >= 2

\* The first of Left, Middle, Right whose flag is set, Right when none is.
FirstPressed(flags) ==
    LET names == <<"Left", "Middle", "Right">>
        set   == {i \in 1..3 : flags[i]}
    IN  IF set = {} THEN "Right"
        ELSE names[CHOOSE i \in set : \A j \in set : i <= j]

\* C20: every Button event handled by drain_events registers exactly one
\* mouse event: when the event reports all three buttons released it is
\* MouseEvent::Up for the first of Left, Middle, Right that mouse_buttons
\* records as pressed (Right when none is recorded), otherwise it is
\* MouseEvent::Down for the first of Left, Middle, Right the event reports
\* pressed; afterwards mouse_buttons equals the event's flags.  What the
\* call leaves behind is what its iterations registered and stored.
C20_Button ==
    lastOp[1] = "drain_events" =>
        LET its == lastOp[2]
        IN  /\ \A i \in 1..Len(its) :
                   its[i].event.kind = "Button" =>
                       LET flags == <<its[i].event.left, its[i].event.middle,
                                      its[i].event.right>>
                       IN  /\ Len(its[i].registered) = 1
                           /\ its[i].registered[1] =
                                  IF flags = <<FALSE, FALSE, FALSE>>
                                  THEN MouseUp(FirstPressed(its[i].before))
                                  ELSE MouseDown(FirstPressed(flags))
                           /\ its[i].after = flags
            /\ \A i \in 2..Len(its) : its[i].before = its[i - 1].after
            /\ its # <<>> => mouse_buttons = its[Len(its)].after
            /\ Len(registered) >= Len(RegisteredBy(its))
            /\ SubSeq(registered,
                      Len(registered) - Len(RegisteredBy(its)) + 1,
                      Len(registered)) = RegisteredBy(its)

\* One call has handled a Button event that presses Middle and Right and
\* then one that reports all released: Up(Middle) is the last event
\* registered and no button is recorded as pressed.
C20_Witness ==
    /\ lastOp[1] = "drain_events"
    /\ Len(lastOp[2]) = 2
    /\ lastOp[2][1].event = OrbEvent("Button", FALSE, TRUE, TRUE, <<>>)
    /\ lastOp[2][2].event = OrbEvent("Button", FALSE, FALSE, FALSE, <<>>)
    /\ registered # <<>>
    /\ registered[Len(registered)] = MouseUp("Middle")
    /\ mouse_buttons = <<FALSE, FALSE, FALSE>>

====
